---- MODULE Spec2Model ----
\* Model of rust/hyperlane-base/src/settings/deprecated_parser.rs: the resolvers
\* (FromRawConf::from_config_filtered) that turn the deprecated raw settings
\* records into Settings, ChainConf, ChainConnectionConf, CoreContractAddresses,
\* IndexSettings, SignerConf and CheckpointSyncerConf, accumulating
\* (ConfigPath, error) pairs in a ConfigParsingError.
\*
\* A ConfigPath is a sequence of segments. A ConfigParsingError is modelled as the
\* set of its (path, message) entries; the messages are the ones the code gives.
\* Each resolver is a synchronous function, so each is one action of its
\* specification: SpecSigner, SpecSyncer, SpecChain and Spec (the top level).
EXTENDS Integers, Sequences, FiniteSets, TLC

VARIABLES raw, filter, pc, result, chains, parsed, fs, created

vars == <<raw, filter, pc, result, chains, parsed, fs, created>>

\* ---------------------------------------------------------------- values

\* Option<T>
None == [some |-> FALSE]

Some(v) == [some |-> TRUE, val |-> v]

IsSome(o) == o.some

\* Result<T, ConfigParsingError>
Ok(v) == [ok |-> TRUE, val |-> v]

Err(e) == [ok |-> FALSE, errs |-> e]

\* The entries of a result's ConfigParsingError (none for an Ok).
ErrsOf(r) == IF r.ok THEN {} ELSE r.errs

\* Option<T> of a Result, as take_err / take_config_err leave it.
TakeOk(r) == IF r.ok THEN Some(r.val) ELSE None

\* into_config_result: a ConfigParsingError with the single entry (path, msg).
ConfigErr(path, msg) == Err({[path |-> path, msg |-> msg]})

\* ConfigParsingError::into_result: the value only if no entry was collected.
IntoResult(err, v) == IF err = {} THEN Ok(v) ELSE Err(err)

\* ConfigPath::join, cwp + "segment"
Join(cwp, seg) == Append(cwp, seg)

\* p is a prefix of the path q (an entry at q lies at or under p).
IsPrefix(p, q) == Len(p) <= Len(q) /\ SubSeq(q, 1, Len(p)) = p

\* ---------------------------------------------------------------- parsing

\* str::parse::<H256> on the key strings of the model: hex digits to a number.
HexKeys == ("0x11" :> 17) @@ ("0x2a" :> 42)

\* str::parse::<Region> on the region strings of the model.
Regions == ("us-east-1" :> "UsEast1") @@ ("eu-west-1" :> "EuWest1")

\* StrOrInt -> integer: an integer is itself, a string is read as decimal digits.
Numerals == ("1" :> 1) @@ ("42" :> 42) @@ ("9091" :> 9091)

StrOrIntTryInto(v) ==
    IF "int" \in DOMAIN v THEN Ok(v.int)
    ELSE IF v.str \in DOMAIN Numerals THEN Ok(Numerals[v.str])
    ELSE Err({})

\* ---------------------------------------------------------------- SignerConf

NodeSigner == [type |-> "Node"]

HexKeySigner(k) == [type |-> "HexKey", key |-> k]

AwsSigner(id, region) == [type |-> "Aws", id |-> id, region |-> region]

\* raw.key...parse().into_config_result(key_path)? after the key is known present.
ParseKey(key, cwp) ==
    IF key \in DOMAIN HexKeys THEN Ok(HexKeySigner(HexKeys[key]))
    ELSE ConfigErr(Join(cwp, "key"), "Invalid key")

\* The HexKey arm: key required, then parsed; ? returns at the first failure.
HexKeyArm(r, cwp) ==
    IF ~IsSome(r.key) THEN ConfigErr(Join(cwp, "key"), "Missing key for HexKey signer")
    ELSE ParseKey(r.key.val, cwp)

\* The Aws arm: id required, then region required and parsed; each ? returns
\* at once, so a missing id is the only entry even when the region is bad too.
AwsArm(r, cwp) ==
    IF ~IsSome(r.id) THEN ConfigErr(Join(cwp, "id"), "Missing id for Aws signer")
    ELSE IF ~IsSome(r.region) THEN ConfigErr(Join(cwp, "region"), "Missing region for Aws signer")
    ELSE IF r.region.val \notin DOMAIN Regions THEN ConfigErr(Join(cwp, "region"), "Invalid region")
    ELSE Ok(AwsSigner(r.id.val, Regions[r.region.val]))

\* SignerFromConfig with the two untagged arms swapped: id/region win over key.
SignerFromConfigAwsFirst(r, cwp) ==
    IF IsSome(r.signer_type) THEN
        IF r.signer_type.val = "hexKey" THEN HexKeyArm(r, cwp)
        ELSE IF r.signer_type.val = "aws" THEN AwsArm(r, cwp)
        ELSE ConfigErr(Join(cwp, "type"), "Unknown signer type")
    ELSE IF IsSome(r.id) \/ IsSome(r.region) THEN AwsArm(r, cwp)
    ELSE IF IsSome(r.key) THEN ParseKey(r.key.val, cwp)
    ELSE Ok(NodeSigner)

\* SignerConf::from_config_filtered: the match on raw.signer_type, arm by arm.
SignerFromConfig(r, cwp) ==
    IF IsSome(r.signer_type) THEN
        IF r.signer_type.val = "hexKey" THEN HexKeyArm(r, cwp)
        ELSE IF r.signer_type.val = "aws" THEN AwsArm(r, cwp)
        ELSE ConfigErr(Join(cwp, "type"), "Unknown signer type")
    ELSE IF IsSome(r.key) THEN ParseKey(r.key.val, cwp)
    ELSE IF IsSome(r.id) \/ IsSome(r.region) THEN AwsArm(r, cwp)
    ELSE Ok(NodeSigner)

\* DeprecatedRawSignerConf: every field optional.
OptOf(S) == {None} \cup {Some(v) : v \in S}

RawSigners ==
    [signer_type : OptOf({"hexKey", "aws", "bogus"}),
     key : OptOf({"0x11", "zz"}),
     id : OptOf({"k1"}),
     region : OptOf({"us-east-1", "mars"})]

SignerPath == <<"signer">>

\* ---------------------------------------------------------------- SpecSigner

InitSigner ==
    /\ raw \in RawSigners
    /\ filter = None
    /\ pc = "start"
    /\ result = None
    /\ chains = <<>>
    /\ parsed = {}
    /\ fs = <<>>
    /\ created = 0

ResolveSigner ==
    /\ pc = "start"
    /\ result' = Some(SignerFromConfig(raw, SignerPath))
    /\ pc' = "done"
    /\ UNCHANGED <<raw, filter, chains, parsed, fs, created>>

NextSigner == ResolveSigner

SpecSigner == InitSigner /\ [][NextSigner]_vars

\* The variant a raw signer is classified as, by the presence of its fields.
SignerClass(r) ==
    IF IsSome(r.signer_type) THEN
        CASE r.signer_type.val = "hexKey" -> "HexKey"
          [] r.signer_type.val = "aws" -> "Aws"
          [] OTHER -> "Unknown"
    ELSE IF IsSome(r.key) THEN "HexKey"
    ELSE IF IsSome(r.id) \/ IsSome(r.region) THEN "Aws"
    ELSE "Node"

\* The fields of the raw signer an error of each class may be located at.
ClassFields(c) ==
    CASE c = "HexKey" -> {"key"}
      [] c = "Aws" -> {"id", "region"}
      [] c = "Unknown" -> {"type"}
      [] OTHER -> {}

\* The outcome of each class: the variant of the class or entries at its fields.
SignerOutcomeAsClaimed(r, res) ==
    LET c == SignerClass(r) IN
    /\ res.ok => res.val.type = c
    /\ ~res.ok => /\ res.errs # {}
                  /\ \A e \in res.errs : \E f \in ClassFields(c) : e.path = Join(SignerPath, f)
    /\ c = "HexKey" => (res.ok <=> (IsSome(r.key) /\ r.key.val \in DOMAIN HexKeys))
    /\ (c = "HexKey" /\ res.ok) => res.val.key = HexKeys[r.key.val]
    /\ (c = "Aws" /\ (~IsSome(r.id) \/ ~IsSome(r.region))) => ~res.ok
    /\ (c = "Aws" /\ IsSome(r.id) /\ IsSome(r.region) /\ r.region.val \in DOMAIN Regions)
          => (res.ok /\ res.val.id = r.id.val /\ res.val.region = Regions[r.region.val])
    /\ c = "Unknown" => ~res.ok
    /\ c = "Node" => (res.ok /\ res.val = NodeSigner)

\* C6: signer inference classifies every combination of (type, key, id, region)
\* by the stated priority: type hexKey -> hex key (error if the key is absent or
\* unparseable); type aws -> Aws (error if id or region is absent); another type
\* -> unknown-type error; no type and a key -> hex key; no type, no key and an
\* id or region -> Aws (error if the counterpart is absent); nothing -> Node.
C6_SignerInference ==
    pc = "done" => SignerOutcomeAsClaimed(raw, result.val)

\* A key together with an id and a region and no type resolves to the hex key.
C6_Witness ==
    /\ pc = "done"
    /\ ~IsSome(raw.signer_type)
    /\ IsSome(raw.key) /\ IsSome(raw.id) /\ IsSome(raw.region)
    /\ result.val.ok
    /\ result.val.val.type = "HexKey"

\* The raw signer is treated as Aws and both required fields are defective.
AwsBothDefective(r) ==
    /\ SignerClass(r) = "Aws"
    /\ ~IsSome(r.id)
    /\ ~IsSome(r.region) \/ r.region.val \notin DOMAIN Regions

\* C7: when a raw signer is treated as Aws and both the id and the region are
\* defective, the aggregate has an entry at <signer>.id and one at <signer>.region.
C7_BothAwsErrorsReported ==
    (pc = "done" /\ AwsBothDefective(raw)) =>
        /\ \E e \in ErrsOf(result.val) : e.path = Join(SignerPath, "id")
        /\ \E e \in ErrsOf(result.val) : e.path = Join(SignerPath, "region")

\* ---------------------------------------------------------------- ChainConnectionConf

\* The protocol-specific resolvers (h_eth, h_fuel, h_sealevel) at
\* <chain>.connection: the payload needs its url.
ProtocolConnFromConfig(payload, cwp) ==
    IF IsSome(payload.url) THEN Ok([url |-> payload.url.val])
    ELSE ConfigErr(Join(cwp, "url"), "Missing url")

\* ConnectionFromConfig with a default: an unknown protocol falls back to Ethereum.
ConnectionFromConfigDefaulting(r, cwp) ==
    LET p == ProtocolConnFromConfig(r.connection, Join(cwp, "connection")) IN
    IF r.protocol = "Unknown" THEN Ok([protocol |-> "Ethereum", conf |-> [url |-> "default"]])
    ELSE IF p.ok THEN Ok([protocol |-> r.protocol, conf |-> p.val])
    ELSE p

\* ChainConnectionConf::from_config_filtered: the payload of a known protocol is
\* resolved at <chain>.connection, Unknown is an error at <chain>.protocol.
ConnectionFromConfig(r, cwp) ==
    IF r.protocol = "Unknown" THEN ConfigErr(Join(cwp, "protocol"), "Unknown chain protocol")
    ELSE LET p == ProtocolConnFromConfig(r.connection, Join(cwp, "connection")) IN
         IF p.ok THEN Ok([protocol |-> r.protocol, conf |-> p.val])
         ELSE p

\* ---------------------------------------------------------------- CoreContractAddresses

\* hex_or_base58_to_h256 on the address strings of the model.
Addresses == ("0xaa" :> 170) @@ ("0xbb" :> 187)

\* parse_addr!: the field is required, then decoded; either failure is one entry
\* at <addresses>.<name> and leaves the field None.
ParseAddr(field, name, cwp) ==
    IF ~IsSome(field) THEN
        [val |-> None,
         errs |-> {[path |-> Join(cwp, name), msg |-> "Missing core contract address"]}]
    ELSE IF field.val \notin DOMAIN Addresses THEN
        [val |-> None, errs |-> {[path |-> Join(cwp, name), msg |-> "Invalid address"]}]
    ELSE [val |-> Some(Addresses[field.val]), errs |-> {}]

\* CoreContractAddresses::from_config_filtered: the three fields are attempted
\* one after the other, then cfg_unwrap_all! returns the collected entries if
\* one of them is None.
AddressesFromConfig(r, cwp) ==
    LET m == ParseAddr(r.mailbox, "mailbox", cwp)
        i == ParseAddr(r.interchain_gas_paymaster, "interchain_gas_paymaster", cwp)
        v == ParseAddr(r.validator_announce, "validator_announce", cwp)
        err == m.errs \cup i.errs \cup v.errs
    IN  IF ~IsSome(m.val) \/ ~IsSome(i.val) \/ ~IsSome(v.val) THEN Err(err)
        ELSE IntoResult(err, [mailbox |-> m.val.val,
                              interchain_gas_paymaster |-> i.val.val,
                              validator_announce |-> v.val.val])

\* ---------------------------------------------------------------- IndexSettings

DefaultChunkSize == 1999

\* serde_json::from_value::<IndexMode> on the mode strings of the model.
IndexModes == ("block" :> "Block") @@ ("sequence" :> "Sequence")

\* An optional StrOrInt field with a default: absent -> the default, a value
\* that does not convert -> one entry at path and the default.
NumOrDefault(field, path, msg, default) ==
    IF ~IsSome(field) THEN [val |-> default, errs |-> {}]
    ELSE LET n == StrOrIntTryInto(field.val) IN
         IF n.ok THEN [val |-> n.val, errs |-> {}]
         ELSE [val |-> default, errs |-> {[path |-> path, msg |-> msg]}]

\* IndexSettings::from_config_filtered
IndexFromConfig(r, cwp) ==
    LET from == NumOrDefault(r.from, Join(cwp, "from"), "Invalid from", 0)
        chunk == NumOrDefault(r.chunk, Join(cwp, "chunk"), "Invalid chunk", DefaultChunkSize)
        modeOk == IsSome(r.mode) => r.mode.val \in DOMAIN IndexModes
        mode == IF IsSome(r.mode) /\ modeOk THEN IndexModes[r.mode.val] ELSE "Block"
        modeErrs == IF modeOk THEN {}
                    ELSE {[path |-> Join(cwp, "mode"), msg |-> "Invalid mode"]}
    IN  IntoResult(from.errs \cup chunk.errs \cup modeErrs,
                   [from |-> from.val, chunk_size |-> chunk.val, mode |-> mode])

DefaultIndexSettings == [from |-> 0, chunk_size |-> DefaultChunkSize, mode |-> "Block"]

\* ---------------------------------------------------------------- ChainConf

\* KnownHyperlaneDomain: the domain ids with a fixed name.
KnownDomains == (1 :> "ethereum")

\* HyperlaneDomain::from_config: a known id must carry its name, and a known
\* name its id; the failure is one entry at the chain's own path.
DomainFromConfig(id, name, protocol, cwp) ==
    IF id \in DOMAIN KnownDomains THEN
        IF KnownDomains[id] = name
        THEN Ok([id |-> id, name |-> name, protocol |-> protocol])
        ELSE ConfigErr(cwp, "Chain name does not match the name of a known domain id")
    ELSE IF \E d \in DOMAIN KnownDomains : KnownDomains[d] = name
        THEN ConfigErr(cwp, "Chain name is known, but the domain id does not match")
    ELSE Ok([id |-> id, name |-> name, protocol |-> protocol])

\* raw.connection: required, then resolved at the chain's path.
ChainConnection(r, cwp) ==
    IF ~IsSome(r.connection) THEN
        [val |-> None,
         errs |-> {[path |-> Join(cwp, "connection"), msg |-> "Missing connection configuration"]}]
    ELSE LET c == ConnectionFromConfig(r.connection.val, cwp) IN
         [val |-> TakeOk(c), errs |-> ErrsOf(c)]

\* What the closure of domain does once the connection is there: the domain id
\* and the name are both attempted, then HyperlaneDomain::from_config.
DomainClosure(r, cwp, protocol) ==
    LET id == IF ~IsSome(r.domain) THEN
                  [val |-> None,
                   errs |-> {[path |-> Join(cwp, "domain"), msg |-> "Missing domain configuration"]}]
              ELSE LET n == StrOrIntTryInto(r.domain.val) IN
                   IF n.ok THEN [val |-> Some(n.val), errs |-> {}]
                   ELSE [val |-> None,
                         errs |-> {[path |-> Join(cwp, "domain"),
                                    msg |-> "Invalid domain id, expected integer"]}]
        name == IF ~IsSome(r.name) THEN
                    [val |-> None,
                     errs |-> {[path |-> Join(cwp, "name"),
                                msg |-> "Missing domain name configuration"]}]
                ELSE [val |-> r.name, errs |-> {}]
    IN  IF ~IsSome(id.val) \/ ~IsSome(name.val)
        THEN [val |-> None, errs |-> id.errs \cup name.errs]
        ELSE LET d == DomainFromConfig(id.val.val, name.val.val, protocol, cwp) IN
             [val |-> TakeOk(d), errs |-> ErrsOf(d)]

\* connection.as_ref().and_then(..): without a resolved connection the closure
\* does not run, so raw.domain and raw.name are not looked at.
ChainDomain(r, cwp, connection) ==
    IF ~IsSome(connection) THEN [val |-> None, errs |-> {}]
    ELSE DomainClosure(r, cwp, connection.val.protocol)

\* raw.addresses: required, then resolved at <chain>.addresses.
ChainAddresses(r, cwp) ==
    IF ~IsSome(r.addresses) THEN
        [val |-> None,
         errs |-> {[path |-> Join(cwp, "addresses"),
                    msg |-> "Missing addresses configuration for core contracts"]}]
    ELSE LET a == AddressesFromConfig(r.addresses.val, Join(cwp, "addresses")) IN
         [val |-> TakeOk(a), errs |-> ErrsOf(a)]

\* raw.signer: optional, resolved at <chain>.signer.
ChainSigner(r, cwp) ==
    IF ~IsSome(r.signer) THEN [val |-> None, errs |-> {}]
    ELSE LET g == SignerFromConfig(r.signer.val, Join(cwp, "signer")) IN
         [val |-> TakeOk(g), errs |-> ErrsOf(g)]

\* raw.index: optional, resolved at <chain>.index, the default on a failure.
ChainIndex(r, cwp) ==
    IF ~IsSome(r.index) THEN [val |-> DefaultIndexSettings, errs |-> {}]
    ELSE LET x == IndexFromConfig(r.index.val, Join(cwp, "index")) IN
         [val |-> IF x.ok THEN x.val ELSE DefaultIndexSettings, errs |-> ErrsOf(x)]

\* ChainConf::from_config_filtered: every field is attempted into one err, then
\* cfg_unwrap_all! returns err if connection, domain or addresses is None.
ChainFromConfig(r, cwp) ==
    LET connection == ChainConnection(r, cwp)
        domain == ChainDomain(r, cwp, connection.val)
        addresses == ChainAddresses(r, cwp)
        signer == ChainSigner(r, cwp)
        finality == NumOrDefault(r.finality_blocks, Join(cwp, "finality_blocks"),
                                 "Invalid finalityBlocks, expected integer", 0)
        index == ChainIndex(r, cwp)
        err == connection.errs \cup domain.errs \cup addresses.errs \cup signer.errs
               \cup finality.errs \cup index.errs
    IN  IF ~IsSome(connection.val) \/ ~IsSome(domain.val) \/ ~IsSome(addresses.val)
        THEN Err(err)
        ELSE IntoResult(err, [connection |-> connection.val.val,
                              domain |-> domain.val.val,
                              addresses |-> addresses.val.val,
                              signer |-> signer.val,
                              finality_blocks |-> finality.val,
                              index |-> index.val])

\* StrOrInt
IntVal(n) == [int |-> n]

StrVal(s) == [str |-> s]

\* DeprecatedRawChainConnectionConf (the flattened protocol and connection)
RawConnections ==
    [protocol : {"Ethereum", "Sealevel"}, connection : [url : OptOf({"http://rpc"})]]
    \cup [protocol : {"Unknown"}]

\* DeprecatedRawCoreContractAddresses
RawAddresses ==
    [mailbox : OptOf({"0xaa", "nothex"}),
     interchain_gas_paymaster : OptOf({"0xbb", "nothex"}),
     validator_announce : OptOf({"0xaa", "nothex"})]

\* DeprecatedRawIndexSettings
RawIndexes ==
    [from : OptOf({StrVal("x")}), chunk : OptOf({IntVal(42)}), mode : OptOf({"sequence", "bogus"})]

\* The raw signers a chain record or the default signer carries in the model.
AbsentFields == [signer_type |-> None, key |-> None, id |-> None, region |-> None]

RawSignerEmpty == AbsentFields

RawSignerKey == [AbsentFields EXCEPT !.key = Some("0x11")]

RawSignerAws == [AbsentFields EXCEPT !.id = Some("k1"), !.region = Some("us-east-1")]

RawSignerBogus == [AbsentFields EXCEPT !.signer_type = Some("bogus")]

\* DeprecatedRawChainConf
RawChains ==
    [name : OptOf({"ethereum", "mychain"}),
     domain : OptOf({IntVal(1), StrVal("42"), StrVal("x")}),
     signer : OptOf({RawSignerEmpty, RawSignerKey, RawSignerBogus}),
     finality_blocks : OptOf({StrVal("x")}),
     addresses : OptOf(RawAddresses),
     connection : OptOf(RawConnections),
     index : OptOf({r \in RawIndexes : ~IsSome(r.from) \/ ~IsSome(r.chunk)})]

ChainPath == <<"chains", "a">>

\* ---------------------------------------------------------------- SpecChain

InitChain ==
    /\ raw \in RawChains
    /\ filter = None
    /\ pc = "start"
    /\ result = None
    /\ chains = <<>>
    /\ parsed = {}
    /\ fs = <<>>
    /\ created = 0

ResolveChain ==
    /\ pc = "start"
    /\ result' = Some(ChainFromConfig(raw, ChainPath))
    /\ pc' = "done"
    /\ UNCHANGED <<raw, filter, chains, parsed, fs, created>>

NextChain == ResolveChain

SpecChain == InitChain /\ [][NextChain]_vars

\* The connection of a chain record does not resolve: it is absent, its protocol
\* is unknown or its payload is invalid.
ConnectionFails(r) ==
    \/ ~IsSome(r.connection)
    \/ ~ConnectionFromConfig(r.connection.val, ChainPath).ok

DomainDefective(r) ==
    \/ ~IsSome(r.domain)
    \/ ~StrOrIntTryInto(r.domain.val).ok

\* C1: a chain record whose connection fails and whose domain is missing or
\* non-numeric, or whose name is missing, gets an entry at <chain>.domain,
\* respectively <chain>.name, besides the connection's entry.
C1_DomainValidatedDespiteConnection ==
    (pc = "done" /\ ConnectionFails(raw)) =>
        /\ DomainDefective(raw) =>
              \E e \in ErrsOf(result.val) : e.path = Join(ChainPath, "domain")
        /\ ~IsSome(raw.name) =>
              \E e \in ErrsOf(result.val) : e.path = Join(ChainPath, "name")

\* ---------------------------------------------------------------- Settings

DefaultMetricsPort == 9090

\* str::to_ascii_lowercase on the chain names of the model (one letter each).
UpperToLower == ("A" :> "a") @@ ("B" :> "b")

ToAsciiLowercase(k) == IF k \in DOMAIN UpperToLower THEN UpperToLower[k] ELSE k

\* Retain with the filter matched on the lower-cased key.
RetainLowercased(rawChains, f) ==
    IF ~IsSome(f) THEN DOMAIN rawChains
    ELSE {k \in DOMAIN rawChains : ToAsciiLowercase(k) \in f.val}

\* chains.retain(|k, _| filter.contains(k)): the keys that stay in the map.
Retain(rawChains, f) ==
    IF ~IsSome(f) THEN DOMAIN rawChains
    ELSE {k \in DOMAIN rawChains : k \in f.val}

\* WithDefaultSigner with insert instead of get_or_insert_with: the default
\* replaces the chain's own signer.
WithDefaultSignerOverriding(conf, default_signer) ==
    IF IsSome(default_signer) THEN [conf EXCEPT !.signer = default_signer]
    ELSE conf

\* parsed.signer.get_or_insert_with(|| default_signer.clone()), when there is a
\* default signer: only a chain without a signer takes it.
WithDefaultSigner(conf, default_signer) ==
    IF IsSome(default_signer) /\ ~IsSome(conf.signer)
    THEN [conf EXCEPT !.signer = default_signer]
    ELSE conf

\* What the map closure does with the resolved chain: Ok((k, parsed)) with the
\* default signer applied, or the chain's error through the ? operator.
MapParsed(res, default_signer) ==
    IF res.ok THEN Ok(WithDefaultSigner(res.val, default_signer)) ELSE res

\* The closure of the map over the chain entries: the entry (k, v) is resolved
\* at chains.<k> and, resolved, keyed by the lower-cased k.
ParseEntry(k, v, cwp, default_signer) ==
    MapParsed(ChainFromConfig(v, Join(Join(cwp, "chains"), k)), default_signer)

\* HashMap::insert
Insert(m, k, v) == [x \in DOMAIN m \cup {k} |-> IF x = k THEN v ELSE m[x]]

\* filter_map and collect on one entry: a resolved entry is inserted under its
\* lower-cased key (replacing an entry already there), the entries of a failed
\* one are merged into err.
FilterMapCollect(acc, k, res) ==
    IF res.ok
    THEN [acc EXCEPT !.chains = Insert(acc.chains, ToAsciiLowercase(k), res.val)]
    ELSE [acc EXCEPT !.err = acc.err \cup res.errs]

\* The iterator chain over the entries, in the order the HashMap yields them.
RECURSIVE CollectChains(_, _, _, _, _)
CollectChains(order, rawChains, cwp, default_signer, acc) ==
    IF order = <<>> THEN acc
    ELSE CollectChains(Tail(order), rawChains, cwp, default_signer,
             FilterMapCollect(acc, Head(order),
                 ParseEntry(Head(order), rawChains[Head(order)], cwp, default_signer)))

\* raw.defaultsigner, resolved at defaultsigner.
DefaultSigner(r, cwp) ==
    IF ~IsSome(r.defaultsigner) THEN [val |-> None, errs |-> {}]
    ELSE LET g == SignerFromConfig(r.defaultsigner.val, Join(cwp, "defaultsigner")) IN
         [val |-> TakeOk(g), errs |-> ErrsOf(g)]

\* The orders in which a HashMap may yield the keys S.
Orders(S) ==
    {o \in [1..Cardinality(S) -> S] : \A i, j \in 1..Cardinality(S) : o[i] = o[j] => i = j}

\* The if/else that computes chains: with a chain map, the default signer is
\* resolved and the entries the filter keeps are resolved in the order given;
\* without one, nothing is resolved and the map is empty.
SettingsChains(r, cwp, order) ==
    IF ~IsSome(r.chains) THEN [chains |-> <<>>, err |-> {}]
    ELSE LET ds == DefaultSigner(r, cwp) IN
         CollectChains(order, r.chains.val, cwp, ds.val, [chains |-> <<>>, err |-> ds.errs])

\* Settings::from_config_filtered: the local chains and the returned result.
SettingsFromConfig(r, cwp, order) ==
    LET c == SettingsChains(r, cwp, order)
        metrics == NumOrDefault(r.metrics, Join(cwp, "metrics"), "Invalid metrics port",
                                DefaultMetricsPort)
    IN  [chains |-> c.chains,
         res |-> IntoResult(c.err \cup metrics.errs,
                            [chains |-> c.chains, metrics_port |-> metrics.val])]

\* The names of the chain map and the most entries a document has in the model.
Keys == {"A", "a", "b"}

MaxChains == 2

GoodAddresses ==
    [mailbox |-> Some("0xaa"), interchain_gas_paymaster |-> Some("0xbb"),
     validator_announce |-> Some("0xaa")]

GoodChain ==
    [name |-> Some("mychain"), domain |-> Some(StrVal("42")), signer |-> None,
     finality_blocks |-> None, addresses |-> Some(GoodAddresses),
     connection |-> Some([protocol |-> "Ethereum", connection |-> [url |-> Some("http://rpc")]]),
     index |-> None]

\* The addresses record without its mailbox and its gas paymaster.
TwoAddressesMissing ==
    [GoodAddresses EXCEPT !.mailbox = None, !.interchain_gas_paymaster = None]

\* The chain records of a document: a good record with its own signer or with
\* none, the records whose connection is missing or of an unknown protocol,
\* with or without a domain, and the records whose addresses are missing, whole
\* or in part, with or without a connection.
SettingsChains0 ==
    {[GoodChain EXCEPT !.signer = g] : g \in OptOf({RawSignerEmpty, RawSignerKey})}
    \cup {[GoodChain EXCEPT !.connection = c, !.domain = d] :
            c \in {None, Some([protocol |-> "Unknown"])},
            d \in {GoodChain.domain, None}}
    \cup {[GoodChain EXCEPT !.addresses = a, !.connection = c] :
            a \in {None, Some(TwoAddressesMissing)},
            c \in {GoodChain.connection, None}}

ChainMaps ==
    UNION {[ks -> SettingsChains0] : ks \in {s \in SUBSET Keys : Cardinality(s) <= MaxChains}}

\* DeprecatedRawSettings
RawSettings ==
    [chains : OptOf(ChainMaps),
     defaultsigner : OptOf({RawSignerEmpty, RawSignerAws, RawSignerBogus}),
     metrics : OptOf({StrVal("9091"), StrVal("x")})]

Filters == OptOf(SUBSET Keys)

Root == <<>>

\* ---------------------------------------------------------------- Spec

Init ==
    /\ raw \in RawSettings
    /\ filter \in Filters
    /\ pc = "start"
    /\ result = None
    /\ chains = <<>>
    /\ parsed = {}
    /\ fs = <<>>
    /\ created = 0

\* One call of the top-level resolver; parsed records the keys whose records
\* the chain resolver was run on.
ResolveSettings ==
    /\ pc = "start"
    /\ LET kept == IF IsSome(raw.chains) THEN Retain(raw.chains.val, filter) ELSE {} IN
       \E order \in Orders(kept) :
          LET o == SettingsFromConfig(raw, Root, order) IN
          /\ result' = Some(o.res)
          /\ chains' = o.chains
          /\ parsed' = kept
    /\ pc' = "done"
    /\ UNCHANGED <<raw, filter, fs, created>>

Next == ResolveSettings

Spec == Init /\ [][Next]_vars

Errs == ErrsOf(result.val)

ChainPathOf(k) == <<"chains", k>>

HasEntryAt(path) == \E e \in Errs : e.path = path

HasEntryUnder(path) == \E e \in Errs : IsPrefix(path, e.path)

\* The retained keys: those of the map that are in the
\* retain-set as written, all of them without a retain-set.
Retained ==
    IF ~IsSome(raw.chains) THEN {}
    ELSE IF ~IsSome(filter) THEN DOMAIN raw.chains.val
    ELSE DOMAIN raw.chains.val \cap filter.val

Dropped == IF IsSome(raw.chains) THEN DOMAIN raw.chains.val \ Retained ELSE {}

Record(k) == raw.chains.val[k]

\* The locations of the required fields missing from the record of chain k.
MissingIn(k) ==
    LET r == Record(k)
        a == Join(ChainPathOf(k), "addresses") IN
    {Join(ChainPathOf(k), f) : f \in {g \in {"connection", "domain", "name", "addresses"} : ~IsSome(r[g])}}
    \cup (IF IsSome(r.addresses)
          THEN {Join(a, f) : f \in {g \in {"mailbox", "interchain_gas_paymaster",
                                           "validator_announce"} : ~IsSome(r.addresses.val[g])}}
          ELSE {})

\* C2: no short-circuit on the first missing required field: two of the three
\* addresses of one record, the addresses record and the connection of one
\* chain, or required fields of two different retained chains, all missing,
\* each get an entry in the aggregate of the top-level resolver.
C2_NoShortCircuit ==
    pc = "done" =>
        \A k, j \in Retained : \A x \in MissingIn(k), y \in MissingIn(j) :
            LET a == Join(ChainPathOf(k), "addresses")
                bothAddresses == k = j /\ x # y /\ IsPrefix(a, x) /\ IsPrefix(a, y)
                                 /\ x # a /\ y # a
                addressesAndConnection ==
                    k = j /\ x = a /\ y = Join(ChainPathOf(k), "connection")
                twoChains == k # j
            IN  (bothAddresses \/ addressesAndConnection \/ twoChains)
                    => (HasEntryAt(x) /\ HasEntryAt(y))

\* The record of chain k has no protocol discriminator or an unrecognized one.
ProtocolTagFails(k) ==
    \/ ~IsSome(Record(k).connection)
    \/ Record(k).connection.val.protocol = "Unknown"

\* Several chains are retained, the protocol tag of k fails and the records of
\* all the others are valid.
OneTagFailure(k) ==
    /\ k \in Retained
    /\ Cardinality(Retained) >= 2
    /\ ProtocolTagFails(k)
    /\ \A j \in Retained \ {k} : ChainFromConfig(Record(j), ChainPathOf(j)).ok

C4_ChainFiltering ==
    pc = "done" =>
        /\ parsed = Retained
        /\ result.val.ok => DOMAIN result.val.val.chains = {ToAsciiLowercase(k) : k \in Retained}
        /\ \A k \in Dropped : ~HasEntryUnder(ChainPathOf(k))

\* The retain-set keeps a and drops A, whose record is defective, and the
\* resolution succeeds with the single key a.
C4_Witness ==
    /\ pc = "done"
    /\ IsSome(filter)
    /\ Retained = {"a"}
    /\ "A" \in Dropped
    /\ ~ChainFromConfig(Record("A"), ChainPathOf("A")).ok
    /\ result.val.ok
    /\ DOMAIN result.val.val.chains = {"a"}

\* The signer each valid raw signer of the model resolves to.
ResolvedSigner(g) ==
    CASE g = RawSignerEmpty -> NodeSigner
      [] g = RawSignerKey -> HexKeySigner(17)
      [] g = RawSignerAws -> AwsSigner("k1", "UsEast1")

\* The signer the cascade gives the chain resolved from the record of k.
CascadedSigner(k) ==
    IF IsSome(Record(k).signer) THEN Some(ResolvedSigner(Record(k).signer.val))
    ELSE IF IsSome(raw.defaultsigner) THEN Some(ResolvedSigner(raw.defaultsigner.val))
    ELSE None

\* C5: in a successful resolution every resolved chain whose record has no
\* signer has the resolved default signer (no signer without a default), and
\* every resolved chain with a signer of its own, node-managed included, has it.
C5_DefaultSignerCascade ==
    (pc = "done" /\ result.val.ok) =>
        \A lk \in DOMAIN result.val.val.chains :
            \E k \in Retained :
                /\ ToAsciiLowercase(k) = lk
                /\ result.val.val.chains[lk].signer = CascadedSigner(k)

\* With an Aws default signer, chain a without a signer has the default and
\* chain b with the empty signer of its own has the node-managed one.
C5_Witness ==
    /\ pc = "done"
    /\ result.val.ok
    /\ raw.defaultsigner = Some(RawSignerAws)
    /\ Retained = {"a", "b"}
    /\ ~IsSome(Record("a").signer)
    /\ Record("b").signer = Some(RawSignerEmpty)
    /\ result.val.val.chains["a"].signer = Some(AwsSigner("k1", "UsEast1"))
    /\ result.val.val.chains["b"].signer = Some(NodeSigner)

\* C9: a defaultsigner that does not resolve always gives an entry under
\* defaultsigner and a failed top-level result, whatever the chain map is
\* (absent, empty, filtered out or populated), and every retained chain is
\* still resolved and its entries reported.
C9_DefaultSignerIndependent ==
    (/\ pc = "done"
     /\ IsSome(raw.defaultsigner)
     /\ ~SignerFromConfig(raw.defaultsigner.val, <<"defaultsigner">>).ok) =>
        /\ HasEntryUnder(<<"defaultsigner">>)
        /\ ~result.val.ok
        /\ parsed = Retained
        /\ \A k \in Retained :
              ErrsOf(ChainFromConfig(Record(k), ChainPathOf(k))) \subseteq Errs

\* The configuration the top-level resolver gives the record of chain k.
ResolvedFrom(k) ==
    [ChainFromConfig(Record(k), ChainPathOf(k)).val EXCEPT !.signer = CascadedSigner(k)]

\* C10: a successful resolution has as many entries as there are retained chain
\* entries, each retained key k being found lower-cased with the configuration
\* of its own record, keys that differ only in letter case included.
C10_EveryRetainedChainRepresented ==
    (pc = "done" /\ result.val.ok) =>
        /\ Cardinality(DOMAIN result.val.val.chains) = Cardinality(Retained)
        /\ \A k \in Retained :
              /\ ToAsciiLowercase(k) \in DOMAIN result.val.val.chains
              /\ result.val.val.chains[ToAsciiLowercase(k)] = ResolvedFrom(k)

\* ---------------------------------------------------------------- CheckpointSyncerConf

\* String -> PathBuf
PathBuf(s) == [path_buf |-> s]

LocalStorageConf(p) == [type |-> "LocalStorage", path |-> PathBuf(p)]

S3Conf(bucket, folder, region) ==
    [type |-> "S3", bucket |-> bucket, folder |-> folder, region |-> region]

\* The outcome of a resolver that may touch the filesystem: its result, the
\* filesystem it leaves and the number of create_dir_all calls it has made.
Outcome(res, f, n) == [res |-> res, fs |-> f, created |-> n]

\* LocalStorageArm without the is_dir branch: an existing path is accepted.
LocalStorageArmNoDirCheck(p, cwp, f, createOk) ==
    IF f[p] = "absent" THEN
        IF createOk THEN Outcome(Ok(LocalStorageConf(p)), [f EXCEPT ![p] = "dir"], 1)
        ELSE Outcome(ConfigErr(Join(cwp, "path"),
                 "Failed to create local checkpoint syncer storage directory"), f, 1)
    ELSE Outcome(Ok(LocalStorageConf(p)), f, 0)

\* The LocalStorage arm after the path is known: Path::exists, create_dir_all
\* (createOk is whether the operating system lets it succeed), Path::is_dir.
LocalStorageArm(p, cwp, f, createOk) ==
    IF f[p] = "absent" THEN
        IF createOk THEN Outcome(Ok(LocalStorageConf(p)), [f EXCEPT ![p] = "dir"], 1)
        ELSE Outcome(ConfigErr(Join(cwp, "path"),
                 "Failed to create local checkpoint syncer storage directory"), f, 1)
    ELSE IF f[p] # "dir" THEN
        Outcome(ConfigErr(Join(cwp, "path"),
            "LocalStorage checkpoint syncer path is not a directory"), f, 0)
    ELSE Outcome(Ok(LocalStorageConf(p)), f, 0)

\* The S3 arm: bucket required, then region required and parsed.
S3Arm(r, cwp) ==
    IF ~IsSome(r.bucket) THEN
        ConfigErr(Join(cwp, "bucket"), "Missing bucket for S3 checkpoint syncer")
    ELSE IF ~IsSome(r.region) THEN
        ConfigErr(Join(cwp, "region"), "Missing region for S3 checkpoint syncer")
    ELSE IF r.region.val \notin DOMAIN Regions THEN
        ConfigErr(Join(cwp, "region"), "Invalid region")
    ELSE Ok(S3Conf(r.bucket.val, r.folder, Regions[r.region.val]))

\* CheckpointSyncerConf::from_config_filtered
SyncerFromConfig(r, cwp, f, createOk) ==
    CASE r.type = "LocalStorage" ->
            IF ~IsSome(r.path) THEN
                Outcome(ConfigErr(Join(cwp, "path"),
                    "Missing path for LocalStorage checkpoint syncer"), f, 0)
            ELSE LocalStorageArm(r.path.val, cwp, f, createOk)
      [] r.type = "S3" -> Outcome(S3Arm(r, cwp), f, 0)
      [] OTHER -> Outcome(ConfigErr(Join(cwp, "type"), "Missing type for checkpoint syncer"), f, 0)

\* The paths of the modelled filesystem and what may be found at each.
Paths == {"/ckpt", "/data"}

PathKinds == {"absent", "file", "dir"}

\* DeprecatedRawCheckpointSyncerConf
RawSyncers ==
    [type : {"LocalStorage"}, path : OptOf(Paths)]
    \cup [type : {"S3"}, bucket : OptOf({"b1"}),
          region : OptOf({"us-east-1", "mars"}), folder : OptOf({"f1"})]
    \cup [type : {"Unknown"}]

SyncerPath == <<"checkpointsyncer">>

\* ---------------------------------------------------------------- SpecSyncer

InitSyncer ==
    /\ raw \in RawSyncers
    /\ filter = None
    /\ pc = "start"
    /\ result = None
    /\ chains = <<>>
    /\ parsed = {}
    /\ fs \in [Paths -> PathKinds]
    /\ created = 0

ResolveSyncer ==
    /\ pc = "start"
    /\ \E createOk \in BOOLEAN :
          LET o == SyncerFromConfig(raw, SyncerPath, fs, createOk) IN
          /\ result' = Some(o.res)
          /\ fs' = o.fs
          /\ created' = created + o.created
    /\ pc' = "done"
    /\ UNCHANGED <<raw, filter, chains, parsed>>

NextSyncer == ResolveSyncer

SpecSyncer == InitSyncer /\ [][NextSyncer]_vars

IsLocal(r) == r.type = "LocalStorage" /\ IsSome(r.path)

AtPath(res) == \A e \in ErrsOf(res) : e.path = Join(SyncerPath, "path")

\* One call of the checkpoint-storage resolver, from the filesystem it finds.
C8_Step ==
    LET res == result'.val
        p == raw.path.val IN
    /\ (IsLocal(raw) /\ fs[p] = "absent") =>
          /\ created' = created + 1
          /\ res.ok => fs' = [fs EXCEPT ![p] = "dir"]
          /\ ~res.ok => (res.errs # {} /\ AtPath(res) /\ fs'[p] # "dir")
    /\ (IsLocal(raw) /\ fs[p] = "file") =>
          (~res.ok /\ res.errs # {} /\ AtPath(res) /\ fs' = fs /\ created' = created)
    /\ (IsLocal(raw) /\ fs[p] = "dir") =>
          (res.ok /\ fs' = fs /\ created' = created)
    /\ (IsLocal(raw) /\ res.ok) => (res.val = LocalStorageConf(p) /\ fs'[p] = "dir")
    /\ ~IsLocal(raw) => (fs' = fs /\ created' = created)
    /\ (res.ok /\ res.val.type = "LocalStorage") => IsLocal(raw)

\* C8: the checkpoint-storage resolver on a configured local path that is absent
\* makes exactly one creation attempt and succeeds only if it succeeds (else an
\* error at path); on a regular file it returns an error at path and leaves the
\* filesystem unchanged; on a directory it succeeds and leaves the filesystem
\* unchanged; a local success leaves a directory at the path; the other variants
\* and a local variant without a path never touch the filesystem.
C8_CheckpointStorage == [][C8_Step]_vars

\* An absent path was created by the one attempt and the resolver succeeded.
C8_Witness ==
    /\ pc = "done"
    /\ IsLocal(raw)
    /\ created = 1
    /\ result.val.ok
    /\ fs[raw.path.val] = "dir"

====
